---- MODULE Spec2Model ----
(***************************************************************************)
(* Scorecard callbacks of the WeWorld Index 2024 dashboard                 *)
(* (app/layout/callbacks/render_scorecards.py) and the aggregation that    *)
(* the methodology page (app/layout/layout_methodology.py) describes.      *)
(*                                                                         *)
(* The observation table `data` is loaded once and the module-level        *)
(* dictionaries `areas` and `centroids` (`globals`) are built from it at   *)
(* import; every callback is a request handler that receives the selected  *)
(* territory and returns its output.  `response` is the response being     *)
(* returned, `first` the first output a browser has kept on screen.        *)
(***************************************************************************)
EXTENDS Integers, Sequences, FiniteSets, TLC

VARIABLES data, globals, response, first, aggCall, aggOut

vars == <<data, globals, response, first, aggCall, aggOut>>

(***************************************************************************)
(* Bounds of the model.                                                    *)
(***************************************************************************)
\* number of country rows of the observation table
NCountries == 3
\* largest Dimension / Sub-index score fed to the geometric-mean aggregators
MaxAggScore == 3

(***************************************************************************)
(* Missing values.  Numeric cells are integers (score points), np.nan is   *)
(* the integer NaN outside every score and difference; a missing text cell *)
(* (area, code, tier) is the text NaText.                                  *)
(***************************************************************************)
NaN == -1000000
NaText == "nan"

\* pd.isna on a numeric cell
IsNaN(x) == x = NaN

\* float subtraction: NaN if either operand is NaN
Minus(a, b) == IF IsNaN(a) \/ IsNaN(b) THEN NaN ELSE a - b

\* the year every scorecard callback filters on
ScorecardYear == 2023

\* lowest and highest score of the 0-100 scale
ScoreMin == 0
ScoreMax == 100

(***************************************************************************)
(* The observation table: a sequence of rows, one per (territory, year).   *)
(***************************************************************************)
World == "World"

\* the score columns of the table, in column order: the Index (column 4), the
\* Sub-indexes (5-7), the Dimensions (8-22) and the Indicators (23-52)
NSubindexes == 3
NDimensions == 15
NIndicators == 30
IndexColumn == "CFA Index"
SubindexColumns == [n \in 1..NSubindexes |-> "Sub-index " \o ToString(n)]
DimensionColumns == [n \in 1..NDimensions |-> "Dimension " \o ToString(n)]
IndicatorColumns == [n \in 1..NIndicators |-> "Indicator " \o ToString(n)]

\* data.columns[4:53], the score columns display_table iterates over
features == <<IndexColumn>> \o SubindexColumns \o DimensionColumns \o IndicatorColumns

Range(seq) == {seq[i] : i \in DOMAIN seq}

CountryNames == <<"c1", "c2", "c3", "c4", "c5">>
CountryCodes == <<"C1", "C2", "C3", "C4", "C5">>
Countries == 1..NCountries

\* the indicator metadata table: number -> name
metadata == [n \in 1..NIndicators |-> "name " \o ToString(n)]

Row(t, a, c, y, idx, ind) ==
    [territory |-> t, area |-> a, code |-> c, year |-> y,
     population |-> IF a = NaText THEN NaN ELSE 5000000,
     gdp |-> IF a = NaText THEN NaN ELSE 12000,
     scores |-> [f \in Range(features) |->
                    IF f = IndexColumn THEN idx ELSE ind]]

\* rows of the countries, in table order
RECURSIVE CountryRows(_, _, _, _)
CountryRows(n, areaOf, idxOf, indOf) ==
    IF n = 0 THEN <<>>
    ELSE Append(CountryRows(n - 1, areaOf, idxOf, indOf),
                Row(CountryNames[n], areaOf[n], CountryCodes[n], ScorecardYear,
                    idxOf[n], indOf[n]))

\* tables that vary what the ranking reads: each country's area and Index
\* score, the presence and score of the Area row, the score of the World row
RankTables ==
    { CountryRows(NCountries, areaOf, idxOf, [c \in Countries |-> 50])
        \o areaRows
        \o <<Row(World, NaText, NaText, ScorecardYear, w, 50)>> :
      areaOf \in [Countries -> {"A1", NaText}],
      idxOf \in [Countries -> {NaN, 80, 90}],
      areaRows \in {<<>>} \cup
                   {<<Row("A1", NaText, NaText, ScorecardYear, s, 50)>> : s \in {NaN, 85}},
      w \in {NaN, 85} }

\* tables that sweep the Index score of one country over the whole scale
TierTables ==
    { CountryRows(NCountries, [c \in Countries |-> "A1"],
                  [c \in Countries |-> IF c = 1 THEN s ELSE 50],
                  [c \in Countries |-> 50])
        \o <<Row("A1", NaText, NaText, ScorecardYear, 50, 50),
             Row(World, NaText, NaText, ScorecardYear, 50, 50)>> :
      s \in ScoreMin..ScoreMax }

\* tables that vary a second score column of a country, its Area and World
DeltaTables ==
    { CountryRows(NCountries, [c \in Countries |-> "A1"],
                  [c \in Countries |-> 70],
                  [c \in Countries |-> IF c = 1 THEN x ELSE 50])
        \o <<Row("A1", NaText, NaText, ScorecardYear, 60, a),
             Row(World, NaText, NaText, ScorecardYear, 50, w)>> :
      x \in {NaN, 40, 50}, a \in {NaN, 40, 50}, w \in {NaN, 40, 50} }

\* tables that hold the rows of an earlier year ahead of the 2023 rows, with
\* other scores: the first country, its Area and World
YearTables ==
    { <<Row(CountryNames[1], a, CountryCodes[1], ScorecardYear - 1, 10, 10),
        Row("A1", NaText, NaText, ScorecardYear - 1, 20, 20),
        Row(World, NaText, NaText, ScorecardYear - 1, 30, 30)>>
        \o CountryRows(NCountries, [c \in Countries |-> IF c = 1 THEN a ELSE "A1"],
                       [c \in Countries |-> IF c = 1 THEN x ELSE 70],
                       [c \in Countries |-> IF c = 1 THEN x ELSE 50])
        \o <<Row("A1", NaText, NaText, ScorecardYear, 60, y),
             Row(World, NaText, NaText, ScorecardYear, 50, y)>> :
      a \in {"A1", NaText}, x \in {NaN, 40, 75}, y \in {NaN, 40, 50} }

\* tables where rows that the ranking must leave out carry the scores that
\* would change it: rows of an earlier year with an area, and the 2023 rows
\* of the Area and of World
FrameTables ==
    { <<Row(CountryNames[1], "A1", CountryCodes[1], ScorecardYear - 1, past, 50),
        Row(CountryNames[2], "A1", CountryCodes[2], ScorecardYear - 1, past, 50)>>
        \o CountryRows(NCountries, [c \in Countries |-> "A1"],
                       [c \in Countries |-> IF c = 1 THEN x ELSE IF c = 2 THEN y ELSE 65],
                       [c \in Countries |-> 50])
        \o <<Row("A1", NaText, NaText, ScorecardYear, agg, 50),
             Row(World, NaText, NaText, ScorecardYear, agg, 50)>> :
      past \in {5, 95}, x \in {NaN, 45, 85}, y \in {45, 85}, agg \in {NaN, 30, 99} }

Tables ==
    RankTables \cup TierTables \cup DeltaTables \cup YearTables \cup FrameTables

\* the values the territory dropdown can send: every territory of the table,
\* every area value, and a key the table does not have
Unknown == "Atlantis"
TerritoryInputs(d) ==
    {d[i].territory : i \in DOMAIN d} \cup
    ({d[i].area : i \in DOMAIN d} \ {NaText}) \cup {Unknown}

(***************************************************************************)
(* DataFrame helpers.                                                      *)
(***************************************************************************)
\* the positions of the rows labelled t, in table order
Locate(df, t) == {i \in DOMAIN df : df[i].territory = t}

Min(S) == CHOOSE x \in S : \A y \in S : x <= y

\* df[...].values[0] / .to_list()[0]: the first selected row
First(df, at) == df[Min(at)]

\* data[data['year'] == 2023]
Rows2023(d) == SelectSeq(d, LAMBDA r : r.year = ScorecardYear)

\* the import-time dictionary `areas`: area value -> codes of its rows, and
\* 'World' -> every code
areas(d) ==
    [k \in ({d[i].area : i \in DOMAIN d} \ {NaText}) \cup {World} |->
        IF k = World
        THEN {d[i].code : i \in DOMAIN d}
        ELSE {d[i].code : i \in {j \in DOMAIN d : d[j].area = k}} \ {NaText}]

(***************************************************************************)
(* geodata and the import-time dictionary `centroids`.  A geometry is a    *)
(* set of unit cells <<lat, lon>>; the centroid of a geometry is the mean  *)
(* of its cells, kept exactly as two fractions of denominator `n`.         *)
(***************************************************************************)
geodata ==
    [code \in Range(CountryCodes) |->
        CASE code = "C1" -> {<<0, 0>>, <<0, 1>>, <<1, 0>>, <<1, 1>>}
          [] code = "C2" -> {<<10, 10>>}
          [] code = "C3" -> {<<4, 20>>, <<4, 21>>}
          [] code = "C4" -> {<<-5, 30>>}
          [] code = "C5" -> {<<7, -8>>, <<8, -8>>, <<9, -8>>}]

RECURSIVE SumLat(_)
SumLat(cells) ==
    IF cells = {} THEN 0
    ELSE LET c == CHOOSE x \in cells : TRUE IN c[1] + SumLat(cells \ {c})
RECURSIVE SumLon(_)
SumLon(cells) ==
    IF cells = {} THEN 0
    ELSE LET c == CHOOSE x \in cells : TRUE IN c[2] + SumLon(cells \ {c})

\* geometry.centroid
Centroid(cells) ==
    [lat |-> SumLat(cells), lon |-> SumLon(cells), n |-> Cardinality(cells)]

\* the same point
SamePoint(p, q) ==
    /\ p.n # 0 /\ q.n # 0
    /\ p.lat * q.n = q.lat * p.n
    /\ p.lon * q.n = q.lon * p.n

\* area_centroid(geodata, codes): the centroid of the union of the
\* geometries of the member codes
area_centroid(geo, codes) ==
    Centroid(UNION {geo[c] : c \in codes \cap DOMAIN geo})

\* the import-time dictionary `centroids`: code -> centroid of its geometry,
\* then every key of `areas` -> centroid of its members
centroids(d) ==
    [k \in DOMAIN geodata \cup DOMAIN areas(d) |->
        IF k \in DOMAIN areas(d)
        THEN area_centroid(geodata, areas(d)[k])
        ELSE Centroid(geodata[k])]

\* the module-level state after import
Imported(d) == [areas |-> areas(d), centroids |-> centroids(d)]

(***************************************************************************)
(* tier: pd.cut(score, bins=TIER_BINS, labels=TIER_LABELS, right=False)    *)
(***************************************************************************)
TIER_BINS == <<0, 20, 40, 60, 80, 100>>
TIER_LABELS == <<"Very Low", "Low", "Medium", "High", "Very High">>

\* pd.cut of one value: bins.searchsorted(x, side) counts the breakpoints
\* below x (side='left', right=True) or not above x (side='right',
\* right=False); a count of 0 or of all the breakpoints is out of range
Cut(x, bins, labels, right) ==
    LET ids == IF right
               THEN Cardinality({i \in DOMAIN bins : bins[i] < x})
               ELSE Cardinality({i \in DOMAIN bins : bins[i] <= x})
    IN  IF IsNaN(x) \/ ids = 0 \/ ids = Len(bins) THEN NaText ELSE labels[ids]

\* the same cut with the default right=True
TierRightClosed(score) == Cut(score, TIER_BINS, TIER_LABELS, TRUE)

\* the same cut after a fillna(0) of the score
TierFillNa(score) ==
    Cut(IF IsNaN(score) THEN 0 ELSE score, TIER_BINS, TIER_LABELS, FALSE)

Tier(score) == Cut(score, TIER_BINS, TIER_LABELS, FALSE)

(***************************************************************************)
(* rank: Series.rank(ascending=False, method='min'), NaN kept NaN          *)
(***************************************************************************)
\* insert v into a descending sequence
RECURSIVE InsertDesc(_, _)
InsertDesc(sorted, v) ==
    IF sorted = <<>> THEN <<v>>
    ELSE IF v >= Head(sorted) THEN <<v>> \o sorted
         ELSE <<Head(sorted)>> \o InsertDesc(Tail(sorted), v)

RECURSIVE SortDesc(_)
SortDesc(values) ==
    IF values = <<>> THEN <<>>
    ELSE InsertDesc(SortDesc(Tail(values)), Head(values))

\* the ranks of a column: the non-missing values are sorted in descending
\* order and a value gets the first position of its group of ties
RankDescDense(values) ==
    [i \in DOMAIN values |->
        IF IsNaN(values[i]) THEN NaN
        ELSE Cardinality({values[j] : j \in {k \in DOMAIN values :
                             ~IsNaN(values[k]) /\ values[k] >= values[i]}})]

RankDescMin(values) ==
    LET sorted == SortDesc(SelectSeq(values, LAMBDA v : ~IsNaN(v)))
    IN  [i \in DOMAIN values |->
            IF IsNaN(values[i]) THEN NaN
            ELSE Min({p \in DOMAIN sorted : sorted[p] = values[i]})]

\* data[(data['area'].notna()) & (data['year'] == 2023)]
DfAllEveryRow(d) == SelectSeq(d, LAMBDA r : r.year = ScorecardYear)

\* the same selection without the condition on the year
DfAllAnyYear(d) == SelectSeq(d, LAMBDA r : r.area # NaText)

DfAll(d) == SelectSeq(d, LAMBDA r : r.area # NaText /\ r.year = ScorecardYear)

\* df_all['CFA Index'].rank(...).loc[territory], NaN on KeyError
RankOf(d, territory) ==
    LET df_all == DfAll(d)
        ranks == RankDescMin([i \in DOMAIN df_all |-> df_all[i].scores[IndexColumn]])
        at == Locate(df_all, territory)
    IN  IF at = {} THEN NaN ELSE ranks[Min(at)]

(***************************************************************************)
(* get_value(df, key, format_string, divide): the formatted cell, or the   *)
(* label "N/A" when the cell is missing.                                   *)
(***************************************************************************)
MISSING_LABEL == "N/A"

\* three digits, zero padded
Pad3(n) ==
    IF n < 10 THEN "00" \o ToString(n)
    ELSE IF n < 100 THEN "0" \o ToString(n) ELSE ToString(n)

\* the ',' option of the format mini-language: groups of three digits
RECURSIVE Grouped(_)
Grouped(n) ==
    IF n < 1000 THEN ToString(n)
    ELSE Grouped(n \div 1000) \o "," \o Pad3(n % 1000)

\* round n / unit to the nearest integer, halves to even
RoundDiv(n, unit) ==
    LET q == n \div unit
        r == n % unit
    IN  IF 2 * r > unit \/ (2 * r = unit /\ q % 2 = 1) THEN q + 1 ELSE q

\* format_string.format(value / divide) for a non-negative whole value
Format(format_string, value, divide) ==
    CASE format_string = "{:,.3f} millions" ->
            LET thousandths == RoundDiv(value, divide \div 1000)
            IN  Grouped(thousandths \div 1000) \o "." \o Pad3(thousandths % 1000)
                    \o " millions"
      [] format_string = "US${:,.0f}" -> "US$" \o Grouped(RoundDiv(value, divide))
      [] format_string = "{:.0f}/157" -> ToString(RoundDiv(value, divide)) \o "/157"
      [] format_string = "{}/100" -> ToString(value \div divide) \o ".0/100"

\* get_value on a numeric cell
GetValue(value, format_string, divide) ==
    IF IsNaN(value) THEN MISSING_LABEL ELSE Format(format_string, value, divide)

\* get_value on a text cell with the format "{}"
GetValueText(value) == IF value = NaText THEN MISSING_LABEL ELSE value

(***************************************************************************)
(* update_scorecard_summary(territory)                                     *)
(***************************************************************************)
NoSummary == [tier |-> NaText, rank |-> NaN, values |-> <<>>]
NoCenter == [lat |-> 0, lon |-> 0, n |-> 0]
NoFigure ==
    [kind |-> "none", children |-> NaText, center |-> NoCenter,
     locations |-> <<>>, traces |-> <<>>, territory_list |-> <<>>, df |-> <<>>]

\* a callback ended by an exception
Raise(callback, territory, exception) ==
    [callback |-> callback, territory |-> territory, raised |-> exception,
     summary |-> NoSummary, rows |-> <<>>, figure |-> NoFigure]

\* the six outputs with the rank formatted without get_value
SummaryValuesRankUnguarded(df_territory, rank, tier) ==
    << GetValueText(df_territory.area),
       GetValue(df_territory.population, "{:,.3f} millions", 1000000),
       GetValue(df_territory.gdp, "US${:,.0f}", 1),
       GetValue(df_territory.scores[IndexColumn], "{}/100", 1),
       IF IsNaN(rank) THEN "nan/157" ELSE Format("{:.0f}/157", rank, 1),
       GetValueText(tier) >>

\* lines 83-90: the six outputs, each through get_value
SummaryValues(df_territory, rank, tier) ==
    << GetValueText(df_territory.area),
       GetValue(df_territory.population, "{:,.3f} millions", 1000000),
       GetValue(df_territory.gdp, "US${:,.0f}", 1),
       GetValue(df_territory.scores[IndexColumn], "{}/100", 1),
       GetValue(rank, "{:.0f}/157", 1),
       GetValueText(tier) >>

\* the table after df_territory['tier'] and df_territory['rank'] are set
\* on the table's own row: the two columns are added to the table
TableAfterSummaryInPlace(d, territory) ==
    IF Locate(Rows2023(d), territory) = {} THEN d
    ELSE [i \in DOMAIN d |->
            IF d[i].territory = territory /\ d[i].year = ScorecardYear
            THEN [tier |-> Tier(d[i].scores[IndexColumn]),
                  rank |-> RankOf(d, territory)] @@ d[i]
            ELSE [tier |-> NaText, rank |-> NaN] @@ d[i]]

\* the table after update_scorecard_summary: df_territory is the row that
\* data[mask].set_index(...).loc[territory] copied out, so the table keeps
\* its rows, columns and values
TableAfterSummary(d, territory) == d

update_scorecard_summary(d, territory) ==
    LET df2023 == Rows2023(d)
        at == Locate(df2023, territory)
    IN  IF at = {}
        THEN \* .loc[territory] on a label the 2023 index lacks
             Raise("update_scorecard_summary", territory, "KeyError")
        ELSE LET df_territory == First(df2023, at)
                 tier == Tier(df_territory.scores[IndexColumn])
                 rank == RankOf(d, territory)
             IN  [callback |-> "update_scorecard_summary", territory |-> territory,
                  raised |-> "none",
                  summary |->
                    [tier |-> tier, rank |-> rank,
                     values |-> SummaryValues(df_territory, rank, tier)],
                  rows |-> <<>>, figure |-> NoFigure]

(***************************************************************************)
(* update_scorecard_title, update_scorecard_map, display_evolution and     *)
(* display_radar.  A figure is kept as what it is drawn from: the centre   *)
(* of the map and the codes it colours, the points of the traces.          *)
(***************************************************************************)
\* lines 31-32: the header is the selected value itself
update_scorecard_title(territory) ==
    [callback |-> "update_scorecard_title", territory |-> territory,
     raised |-> "none", summary |-> NoSummary, rows |-> <<>>,
     figure |-> [NoFigure EXCEPT !.kind = "title", !.children = territory]]

\* the centre of the map without the branch on 'World' (lines 59-62)
MapCenterOfCentroid(territory, centroid) == centroid

\* lines 59-62: 'World' is centred on (0, 0), anything else on its centroid
MapCenter(territory, centroid) ==
    IF territory = World THEN [lat |-> 0, lon |-> 0, n |-> 1] ELSE centroid

\* the module dictionaries after update_scorecard_map, had it recorded the
\* selected territory in them (as dict.setdefault(territory, ...) would)
GlobalsAfterMapRecording(g, territory) ==
    [areas |-> [k \in DOMAIN g.areas \cup {territory} |->
                   IF k \in DOMAIN g.areas THEN g.areas[k] ELSE {}],
     centroids |-> [k \in DOMAIN g.centroids \cup {territory} |->
                       IF k \in DOMAIN g.centroids THEN g.centroids[k]
                       ELSE Centroid({})]]

\* the module dictionaries after update_scorecard_map: `areas` and
\* `centroids` are only read (lines 40, 42, 45)
GlobalsAfterMap(g, territory) == g

update_scorecard_map(d, g, territory) ==
    IF territory \in DOMAIN g.areas
    THEN LET df == SelectSeq(d, LAMBDA r : r.area = territory)
         IN  [callback |-> "update_scorecard_map", territory |-> territory,
              raised |-> "none", summary |-> NoSummary, rows |-> <<>>,
              figure |-> [NoFigure EXCEPT
                            !.kind = "map",
                            !.center = MapCenter(territory, g.centroids[territory]),
                            !.locations = [i \in DOMAIN df |-> df[i].code]]]
    ELSE LET df == SelectSeq(d, LAMBDA r : r.territory = territory)
         IN  IF df = <<>>
             THEN \* df['code'].values[0] on the empty selection
                  Raise("update_scorecard_map", territory, "IndexError")
             ELSE IF df[1].code \notin DOMAIN g.centroids
             THEN \* centroids[code] on a code without geometry
                  Raise("update_scorecard_map", territory, "KeyError")
             ELSE [callback |-> "update_scorecard_map", territory |-> territory,
                   raised |-> "none", summary |-> NoSummary, rows |-> <<>>,
                   figure |-> [NoFigure EXCEPT
                                 !.kind = "map",
                                 !.center = MapCenter(territory, g.centroids[df[1].code]),
                                 !.locations = [i \in DOMAIN df |-> df[i].code]]]

\* the list without 'World'
ComparedWithoutWorld(territory, area) ==
    IF territory # World THEN <<territory, area>> ELSE <<territory>>

\* lines 98, 129: if territory != "World": territory = [territory, area, 'World']
Compared(territory, area) ==
    IF territory # World THEN <<territory, area, World>> ELSE <<territory>>

display_evolution(d, territory) ==
    LET at == Locate(d, territory)
    IN  IF at = {}
        THEN \* .to_list()[0] on the empty selection
             Raise("display_evolution", territory, "IndexError")
        ELSE LET territory_list == Compared(territory, First(d, at).area)
                 df == SelectSeq(d, LAMBDA r : r.territory \in Range(territory_list))
             IN  [callback |-> "display_evolution", territory |-> territory,
                  raised |-> "none", summary |-> NoSummary, rows |-> <<>>,
                  figure |-> [NoFigure EXCEPT
                                !.kind = "line",
                                !.territory_list = territory_list,
                                !.traces = [i \in DOMAIN df |->
                                              [Territory |-> df[i].territory,
                                               x |-> df[i].year,
                                               y |-> df[i].scores[IndexColumn]]]]]

display_radar(d, territory) ==
    LET at == Locate(d, territory)
    IN  IF at = {}
        THEN \* .to_list()[0] on the empty selection
             Raise("display_radar", territory, "IndexError")
        ELSE LET territory_list == Compared(territory, First(d, at).area)
                 df == SelectSeq(d, LAMBDA r : /\ r.territory \in Range(territory_list)
                                               /\ r.year = ScorecardYear)
                 n == Len(df)
                 \* pd.melt: one block of rows per dimension, in column order
                 melted == [k \in 1..(NDimensions * n) |->
                              [Territory |-> df[((k - 1) % n) + 1].territory,
                               x |-> DimensionColumns[((k - 1) \div n) + 1],
                               y |-> df[((k - 1) % n) + 1].scores[
                                        DimensionColumns[((k - 1) \div n) + 1]]]]
             IN  [callback |-> "display_radar", territory |-> territory,
                  raised |-> "none", summary |-> NoSummary, rows |-> <<>>,
                  figure |-> [NoFigure EXCEPT
                                !.kind = "line_polar",
                                !.territory_list = territory_list,
                                !.traces = melted]]

(***************************************************************************)
(* sig_round(x): x rounded to SIG_PRECISION significant figures.  Rounding *)
(* to significant figures commutes with a change of decimal unit, so it is *)
(* defined on whole numbers of any fixed decimal unit.                     *)
(***************************************************************************)
SIG_PRECISION == 2

Abs(x) == IF x < 0 THEN -x ELSE x

RECURSIVE Digits(_)
Digits(n) == IF n < 10 THEN 1 ELSE 1 + Digits(n \div 10)

RECURSIVE Pow(_, _)
Pow(b, e) == IF e = 0 THEN 1 ELSE b * Pow(b, e - 1)

SigRound(x, precision) ==
    IF IsNaN(x) THEN NaN
    ELSE LET k == Digits(Abs(x))
         IN  IF k <= precision THEN x
             ELSE LET unit == Pow(10, k - precision)
                      m == RoundDiv(Abs(x), unit) * unit
                  IN  IF x < 0 THEN -m ELSE m

sig_round(x) == SigRound(x, SIG_PRECISION)

(***************************************************************************)
(* display_table(territory)                                                *)
(***************************************************************************)
\* the number N of a column named 'Indicator N', 0 for any other column
IndicatorNumber(feature) ==
    IF \E n \in DOMAIN IndicatorColumns : IndicatorColumns[n] = feature
    THEN CHOOSE n \in DOMAIN IndicatorColumns : IndicatorColumns[n] = feature
    ELSE 0

\* the branch of display_table on the selected territory (lines 183-191):
\* which of the two differences are computed at all
\* (the first one is the branch without the `territory in areas` case)
ComputesFromAreaUnlessWorld(g, territory) == territory # World

ComputesFromArea(g, territory) ==
    territory # World /\ territory \notin DOMAIN g.areas
ComputesFromWorld(g, territory) == territory # World

\* lines 161-167: the territories whose rows are compared
TerritoryList(territory, area) ==
    IF territory = World THEN <<territory>>
    ELSE IF area = NaText THEN <<territory, World>>
         ELSE <<territory, area, World>>

\* the selection without the condition on the year
TableDfAnyYear(d, territory_list) ==
    SelectSeq(d, LAMBDA r : r.territory \in Range(territory_list))

\* line 169: data.query("territory == @territory_list and year == 2023")
TableDf(d, territory_list) ==
    SelectSeq(d, LAMBDA r : r.territory \in Range(territory_list)
                              /\ r.year = ScorecardYear)

\* the difference taken the other way round
ScoreChangeReversed(score, reference) == sig_round(Minus(reference, score))

\* lines 188, 190, 191: sig_round(score - df_...[feature].values[0])
ScoreChange(score, reference) == sig_round(Minus(score, reference))

\* one pass of the loop over features; `raised` names the exception that
\* ends the callback in this pass
TableRow(d, g, territory, area, feature) ==
    LET df == TableDf(d, TerritoryList(territory, area))
        df_territory == Locate(df, territory)
        df_area == IF area = NaText THEN {} ELSE Locate(df, area)
        df_world == Locate(df, World)
        n == IndicatorNumber(feature)
        component_name ==
            IF n # 0 THEN feature \o ": " \o metadata[n] ELSE feature
        score == First(df, df_territory).scores[feature]
        from_area ==
            IF ComputesFromArea(g, territory)
            THEN ScoreChange(score, First(df, df_area).scores[feature])
            ELSE NaN
        from_world ==
            IF ComputesFromWorld(g, territory)
            THEN ScoreChange(score, First(df, df_world).scores[feature])
            ELSE NaN
        raised ==
            IF n # 0 /\ n \notin DOMAIN metadata THEN "KeyError"
            ELSE IF df_territory = {} THEN "IndexError"
            ELSE IF ComputesFromArea(g, territory) /\ df_area = {} THEN "IndexError"
            ELSE IF ComputesFromWorld(g, territory) /\ df_world = {} THEN "IndexError"
            ELSE "none"
    IN  IF raised # "none"
        THEN [raised |-> raised, component |-> feature, score |-> NaN,
              score_change_from_area |-> NaN, score_change_from_world |-> NaN]
        ELSE [raised |-> "none", component |-> component_name, score |-> score,
              score_change_from_area |-> IF IsNaN(score) THEN NaN ELSE from_area,
              score_change_from_world |-> IF IsNaN(score) THEN NaN ELSE from_world]

display_table(d, g, territory) ==
    LET at == Locate(d, territory)
    IN  IF at = {}
        THEN \* .to_list()[0] on the empty selection
             Raise("display_table", territory, "IndexError")
        ELSE LET area == First(d, at).area
                 territory_list == TerritoryList(territory, area)
                 df == TableDf(d, territory_list)
                 rows == [i \in DOMAIN features |->
                            TableRow(d, g, territory, area, features[i])]
                 bad == {i \in DOMAIN rows : rows[i].raised # "none"}
             IN  IF bad # {}
                 THEN Raise("display_table", territory, rows[Min(bad)].raised)
                 ELSE [callback |-> "display_table", territory |-> territory,
                       raised |-> "none", summary |-> NoSummary, rows |-> rows,
                       figure |-> [NoFigure EXCEPT
                                     !.kind = "table",
                                     !.territory_list = territory_list,
                                     !.df = [i \in DOMAIN df |->
                                               [Territory |-> df[i].territory,
                                                year |-> df[i].year]]]]

(***************************************************************************)
(* The aggregation of the methodology page: a Dimension is the arithmetic  *)
(* mean of its 2 Components, a Sub-index the geometric mean of its 5       *)
(* Dimensions, the Index the geometric mean of the 3 Sub-indexes.          *)
(*                                                                         *)
(* A score is kept exactly, as the record [num, den, root] that stands for *)
(* the real number (num / den)^(1 / root); den = 0 is the missing score.   *)
(***************************************************************************)
MISSING == [num |-> 0, den |-> 0, root |-> 1]
IsMissing(v) == v.den = 0
Score(x) == IF IsNaN(x) THEN MISSING ELSE [num |-> x, den |-> 1, root |-> 1]

\* a = b and a <= b on present scores, by cross multiplication
EqVal(a, b) ==
    IF a.root = b.root
    THEN a.num * b.den = b.num * a.den
    ELSE Pow(a.num, b.root) * Pow(b.den, a.root)
            = Pow(b.num, a.root) * Pow(a.den, b.root)
LeqVal(a, b) ==
    IF a.root = b.root
    THEN a.num * b.den <= b.num * a.den
    ELSE Pow(a.num, b.root) * Pow(b.den, a.root)
            <= Pow(b.num, a.root) * Pow(a.den, b.root)

RECURSIVE ProductNum(_)
ProductNum(xs) == IF xs = <<>> THEN 1 ELSE Head(xs).num * ProductNum(Tail(xs))
RECURSIVE ProductDen(_)
ProductDen(xs) == IF xs = <<>> THEN 1 ELSE Head(xs).den * ProductDen(Tail(xs))
RECURSIVE SumNum(_)
SumNum(xs) == IF xs = <<>> THEN 0 ELSE Head(xs).num + SumNum(Tail(xs))

\* the mean of the inputs that are present (a skipna mean)
aggregate_dimension_skipna(component_a, component_b) ==
    IF IsMissing(component_a) THEN component_b
    ELSE IF IsMissing(component_b) THEN component_a
    ELSE [num |-> component_a.num + component_b.num, den |-> 2, root |-> 1]

\* the sum of the two Component scores, not divided
aggregate_dimension_sum(component_a, component_b) ==
    IF IsMissing(component_a) \/ IsMissing(component_b) THEN MISSING
    ELSE [num |-> component_a.num * component_b.den
                    + component_b.num * component_a.den,
          den |-> component_a.den * component_b.den,
          root |-> 1]

\* arithmetic mean of two Component scores (whole points)
aggregate_dimension(component_a, component_b) ==
    IF IsMissing(component_a) \/ IsMissing(component_b) THEN MISSING
    ELSE [num |-> component_a.num * component_b.den
                    + component_b.num * component_a.den,
          den |-> 2 * component_a.den * component_b.den,
          root |-> 1]

\* a score that the geometric mean cannot take: missing or not positive
Unusable(v) == IsMissing(v) \/ v.num <= 0

\* the arithmetic mean of whole-point scores
ArithmeticMean(xs) ==
    IF \E i \in DOMAIN xs : Unusable(xs[i]) THEN MISSING
    ELSE [num |-> SumNum(xs), den |-> Len(xs), root |-> 1]

\* n-th root of the product of n scores of a common root
GeometricMean(xs) ==
    IF \E i \in DOMAIN xs : Unusable(xs[i]) THEN MISSING
    ELSE [num |-> ProductNum(xs), den |-> ProductDen(xs),
          root |-> xs[1].root * Len(xs)]

\* the geometric mean of the usable inputs only
GeometricMeanOmit(xs) ==
    LET usable == SelectSeq(xs, LAMBDA v : ~Unusable(v))
    IN  IF usable = <<>> THEN MISSING ELSE GeometricMean(usable)

\* the geometric mean taken pairwise from the left: gm(gm(a, b), c), ...
RECURSIVE GeometricMeanPairwise(_)
GeometricMeanPairwise(xs) ==
    IF \E i \in DOMAIN xs : Unusable(xs[i]) THEN MISSING
    ELSE IF Len(xs) = 1 THEN xs[1]
    ELSE LET left == GeometricMeanPairwise(SubSeq(xs, 1, Len(xs) - 1))
             last == xs[Len(xs)]
         IN  [num |-> left.num * Pow(last.num, left.root),
              den |-> left.den * Pow(last.den, left.root),
              root |-> 2 * left.root]

aggregate_subindex(dimension_scores) == GeometricMean(dimension_scores)

aggregate_index(subindex_scores) == GeometricMean(subindex_scores)

(***************************************************************************)
(* The dashboard: the table is loaded, then callbacks are served.          *)
(***************************************************************************)
NoResponse ==
    [callback |-> "none", territory |-> NaText, raised |-> "none",
     summary |-> NoSummary, rows |-> <<>>, figure |-> NoFigure]

NoCall == [fn |-> "none", args |-> <<>>, done |-> FALSE]

Init ==
    /\ data \in Tables
    /\ globals = Imported(data)
    /\ response = NoResponse
    /\ first = NoResponse
    /\ aggCall = NoCall
    /\ aggOut = MISSING

\* a callback runs when the browser sends a selection and no other callback
\* is running in this process
UpdateScorecardTitle ==
    \E territory \in TerritoryInputs(data) :
        /\ response = NoResponse
        /\ response' = update_scorecard_title(territory)
        /\ UNCHANGED <<data, globals, first, aggCall, aggOut>>

UpdateScorecardMap ==
    \E territory \in TerritoryInputs(data) :
        /\ response = NoResponse
        /\ response' = update_scorecard_map(data, globals, territory)
        /\ globals' = GlobalsAfterMap(globals, territory)
        /\ UNCHANGED <<data, first, aggCall, aggOut>>

UpdateScorecardSummary ==
    \E territory \in TerritoryInputs(data) :
        /\ response = NoResponse
        /\ response' = update_scorecard_summary(data, territory)
        /\ data' = TableAfterSummary(data, territory)
        /\ UNCHANGED <<globals, first, aggCall, aggOut>>

DisplayEvolution ==
    \E territory \in TerritoryInputs(data) :
        /\ response = NoResponse
        /\ response' = display_evolution(data, territory)
        /\ UNCHANGED <<data, globals, first, aggCall, aggOut>>

DisplayRadar ==
    \E territory \in TerritoryInputs(data) :
        /\ response = NoResponse
        /\ response' = display_radar(data, territory)
        /\ UNCHANGED <<data, globals, first, aggCall, aggOut>>

DisplayTable ==
    \E territory \in TerritoryInputs(data) :
        /\ response = NoResponse
        /\ response' = display_table(data, globals, territory)
        /\ UNCHANGED <<data, globals, first, aggCall, aggOut>>

\* the response reaches the browser
Deliver ==
    /\ response # NoResponse
    /\ response' = NoResponse
    /\ UNCHANGED <<data, globals, first, aggCall, aggOut>>

Next ==
    \/ UpdateScorecardTitle
    \/ UpdateScorecardMap
    \/ UpdateScorecardSummary
    \/ DisplayEvolution
    \/ DisplayRadar
    \/ DisplayTable
    \/ Deliver

Spec == Init /\ [][Next]_vars

IsSummary == response.callback = "update_scorecard_summary"
IsTable == response.callback = "display_table"
Returned == response.raised = "none"

\* the 2023 row of the territory the response is about
Has2023Row(t) == Locate(Rows2023(data), t) # {}
RowOf(t) == First(Rows2023(data), Locate(Rows2023(data), t))
IndexOf(t) == RowOf(t).scores[IndexColumn]

\* the ranked set: positions of the 2023 rows with an area and an Index score
Ranked ==
    {i \in DOMAIN data : /\ data[i].year = ScorecardYear
                         /\ data[i].area # NaText
                         /\ ~IsNaN(data[i].scores[IndexColumn])}
IsRanked(t) == \E i \in Ranked : data[i].territory = t
Better(i) ==
    {j \in Ranked : data[j].scores[IndexColumn] > data[i].scores[IndexColumn]}

\* C1: the rank of a ranked territory is 1 + the number of ranked territories
\* with a strictly greater Index score (min-ranking, descending), and a higher
\* score never gets a larger rank number
C1_RankIsMinDescending ==
    /\ (IsSummary /\ Returned) =>
          \A i \in Ranked :
              data[i].territory = response.territory =>
                  response.summary.rank = 1 + Cardinality(Better(i))
    /\ \A i, j \in Ranked :
          data[i].scores[IndexColumn] > data[j].scores[IndexColumn] =>
              RankOf(data, data[i].territory) <= RankOf(data, data[j].territory)

\* scores [90, 90, 80] are ranked [1, 1, 3]: the territory with 80 is third
C1_Witness ==
    /\ IsSummary /\ Returned
    /\ \A c \in 1..3 : data[c].area = "A1"
    /\ data[1].scores[IndexColumn] = 90
    /\ data[2].scores[IndexColumn] = 90
    /\ data[3].scores[IndexColumn] = 80
    /\ response.territory = data[3].territory
    /\ response.summary.rank = 3
    /\ RankOf(data, data[1].territory) = 1
    /\ RankOf(data, data[2].territory) = 1

\* the table without the rows that are not ranked
RankedRowsOnly ==
    SelectSeq(data, LAMBDA r : /\ r.year = ScorecardYear
                               /\ r.area # NaText
                               /\ ~IsNaN(r.scores[IndexColumn]))

\* C2: a territory outside the ranked set (missing value, or an aggregate row
\* without area) gets the undefined rank without an error, shown as the
\* placeholder, and the rank of a ranked territory is the one it has in the
\* table restricted to the ranked rows; with every value missing no territory
\* has a rank
C2_UnrankedIsUndefined ==
    IsSummary =>
        /\ (Has2023Row(response.territory) /\ ~IsRanked(response.territory)) =>
              /\ Returned
              /\ IsNaN(response.summary.rank)
              /\ response.summary.values[5] = MISSING_LABEL
        /\ (Returned /\ IsRanked(response.territory)) =>
              response.summary.rank = RankOf(RankedRowsOnly, response.territory)
        /\ (Returned /\ Ranked = {}) => IsNaN(response.summary.rank)

\* World is selected while some country is ranked: World has no rank
C2_Witness ==
    /\ IsSummary /\ Returned
    /\ response.territory = World
    /\ ~IsNaN(IndexOf(World))
    /\ Ranked # {}
    /\ \E i \in DOMAIN data : data[i].area # NaText /\ IsNaN(data[i].scores[IndexColumn])
    /\ IsNaN(response.summary.rank)

\* C3: the tier is the label of the bin [TIER_BINS[i], TIER_BINS[i+1]) that
\* holds the Index score; a score equal to a breakpoint gets the label of the
\* bin that starts there
C3_TierBinsClosedBelow ==
    (IsSummary /\ Returned) =>
        \A i \in DOMAIN TIER_LABELS :
            /\ (TIER_BINS[i] <= IndexOf(response.territory)
                    /\ IndexOf(response.territory) < TIER_BINS[i + 1]) =>
                  response.summary.tier = TIER_LABELS[i]
            /\ IndexOf(response.territory) = TIER_BINS[i] =>
                  response.summary.values[6] = TIER_LABELS[i]

\* a score on an inner breakpoint
C3_Witness ==
    /\ IsSummary /\ Returned
    /\ IndexOf(response.territory) = TIER_BINS[4]
    /\ response.summary.tier = TIER_LABELS[4]

\* C4: a missing Index score gives the missing tier, shown as the placeholder,
\* and the callback returns
C4_MissingScoreNoTier ==
    (IsSummary /\ Has2023Row(response.territory)) =>
        (IsNaN(IndexOf(response.territory)) =>
            /\ Returned
            /\ response.summary.tier = NaText
            /\ response.summary.values[6] = MISSING_LABEL)

C4_Witness ==
    /\ IsSummary /\ Returned
    /\ data[1].territory = response.territory
    /\ data[1].area # NaText
    /\ IsNaN(IndexOf(response.territory))
    /\ response.summary.values[6] = MISSING_LABEL

(***************************************************************************)
(* Properties of display_table.                                            *)
(***************************************************************************)
IsArea(t) == t # World /\ t \in DOMAIN areas(data)
AreaOf(t) == RowOf(t).area
ScoreOf(t, f) == RowOf(t).scores[f]

\* the difference the table shows against the reference territory ref
Expected(t, ref, f) ==
    IF ~Has2023Row(ref) \/ IsNaN(ScoreOf(t, f)) \/ IsNaN(ScoreOf(ref, f))
    THEN NaN
    ELSE sig_round(ScoreOf(t, f) - ScoreOf(ref, f))

\* C5: in every row of the table, World has no difference at all, an Area has
\* no difference from Area and a difference from World exactly when both
\* scores are present, any other territory has both differences computed; the
\* table is returned for World, for an Area and for a territory whose Area and
\* World rows exist
C5_DeltaByKindOfTerritory ==
    (IsTable /\ Has2023Row(response.territory)) =>
        LET t == response.territory
        IN  /\ (t = World \/ IsArea(t)
                  \/ (AreaOf(t) # NaText /\ Has2023Row(AreaOf(t)))) => Returned
            /\ Returned =>
                 \A i \in DOMAIN response.rows :
                    LET row == response.rows[i]
                        f == features[i]
                    IN  /\ t = World =>
                              /\ IsNaN(row.score_change_from_area)
                              /\ IsNaN(row.score_change_from_world)
                        /\ IsArea(t) =>
                              /\ IsNaN(row.score_change_from_area)
                              /\ row.score_change_from_world = Expected(t, World, f)
                              /\ (~IsNaN(ScoreOf(t, f)) /\ ~IsNaN(ScoreOf(World, f)))
                                    => ~IsNaN(row.score_change_from_world)
                        /\ (t # World /\ ~IsArea(t)) =>
                              /\ row.score_change_from_area = Expected(t, AreaOf(t), f)
                              /\ row.score_change_from_world = Expected(t, World, f)

\* the three kinds of territory have been shown: here a country with both
\* differences defined
C5_Witness ==
    /\ IsTable /\ Returned
    /\ response.territory = data[1].territory
    /\ ~IsArea(response.territory)
    /\ \E i \in DOMAIN response.rows :
          /\ ~IsNaN(response.rows[i].score_change_from_area)
          /\ ~IsNaN(response.rows[i].score_change_from_world)
          /\ response.rows[i].score_change_from_area # response.rows[i].score_change_from_world

\* C6: display_table returns the table for every territory of the table, and
\* a difference against a missing or absent reference, or of a missing score,
\* is undefined
C6_DeltaNeverRaises ==
    (IsTable /\ Has2023Row(response.territory)) =>
        /\ Returned
        /\ \A i \in DOMAIN response.rows :
              LET t == response.territory
                  f == features[i]
              IN  /\ (~Has2023Row(World) \/ IsNaN(ScoreOf(World, f)) \/ IsNaN(ScoreOf(t, f)))
                        => IsNaN(response.rows[i].score_change_from_world)
                  /\ (AreaOf(t) = NaText \/ ~Has2023Row(AreaOf(t))
                        \/ IsNaN(ScoreOf(AreaOf(t), f)) \/ IsNaN(ScoreOf(t, f)))
                        => IsNaN(response.rows[i].score_change_from_area)

(***************************************************************************)
(* The aggregators as pure functions: a call is drawn, then applied.       *)
(***************************************************************************)
\* the number of inputs of each level
ComponentsPerDimension == 2
DimensionsPerSubindex == 5
SubindexesPerIndex == 3

ComponentScores == {NaN} \cup (ScoreMin..ScoreMax)
AggScores == {NaN} \cup (0..MaxAggScore)

Scores(raw) == [i \in DOMAIN raw |-> Score(raw[i])]

AggCalls ==
    {[fn |-> "aggregate_dimension", args |-> Scores(raw), done |-> FALSE] :
        raw \in [1..ComponentsPerDimension -> ComponentScores]}
    \cup
    {[fn |-> "aggregate_subindex", args |-> Scores(raw), done |-> FALSE] :
        raw \in [1..DimensionsPerSubindex -> AggScores]}
    \cup
    {[fn |-> "aggregate_index", args |-> Scores(raw), done |-> FALSE] :
        raw \in [1..SubindexesPerIndex -> AggScores]}

InitAgg ==
    /\ data = <<>>
    /\ globals = Imported(data)
    /\ response = NoResponse
    /\ first = NoResponse
    /\ aggCall \in AggCalls
    /\ aggOut = MISSING

AggregateDimension ==
    /\ aggCall.fn = "aggregate_dimension" /\ ~aggCall.done
    /\ aggOut' = aggregate_dimension(aggCall.args[1], aggCall.args[2])
    /\ aggCall' = [aggCall EXCEPT !.done = TRUE]
    /\ UNCHANGED <<data, globals, response, first>>

AggregateSubindex ==
    /\ aggCall.fn = "aggregate_subindex" /\ ~aggCall.done
    /\ aggOut' = aggregate_subindex(aggCall.args)
    /\ aggCall' = [aggCall EXCEPT !.done = TRUE]
    /\ UNCHANGED <<data, globals, response, first>>

AggregateIndex ==
    /\ aggCall.fn = "aggregate_index" /\ ~aggCall.done
    /\ aggOut' = aggregate_index(aggCall.args)
    /\ aggCall' = [aggCall EXCEPT !.done = TRUE]
    /\ UNCHANGED <<data, globals, response, first>>

NextAgg == AggregateDimension \/ AggregateSubindex \/ AggregateIndex

SpecAgg == InitAgg /\ [][NextAgg]_vars

Done(fn) == aggCall.fn = fn /\ aggCall.done
AnyMissing == \E i \in DOMAIN aggCall.args : IsMissing(aggCall.args[i])
AllPositive ==
    \A i \in DOMAIN aggCall.args :
        ~IsMissing(aggCall.args[i]) /\ aggCall.args[i].num > 0
AllEqual ==
    \A i, j \in DOMAIN aggCall.args : aggCall.args[i].num = aggCall.args[j].num

\* the product and the sum of the whole-point inputs of the call
RECURSIVE ProductUpTo(_)
ProductUpTo(n) == IF n = 0 THEN 1 ELSE ProductUpTo(n - 1) * aggCall.args[n].num
RECURSIVE SumUpTo(_)
SumUpTo(n) == IF n = 0 THEN 0 ELSE SumUpTo(n - 1) + aggCall.args[n].num
NArgs == Len(aggCall.args)

\* out is the n-th root of the product of the inputs: out^n = product
IsRootOfProduct(out) ==
    /\ ~IsMissing(out)
    /\ out.root = NArgs
    /\ out.num = ProductUpTo(NArgs) * out.den

\* C7: aggregate_dimension is the arithmetic mean of its two Component scores
\* (twice the result is their sum) and is missing when either is missing
C7_DimensionIsArithmeticMean ==
    Done("aggregate_dimension") =>
        /\ AnyMissing => IsMissing(aggOut)
        /\ ~AnyMissing =>
              /\ ~IsMissing(aggOut)
              /\ aggOut.root = 1
              /\ 2 * aggOut.num = SumUpTo(2) * aggOut.den

C7_Witness ==
    /\ Done("aggregate_dimension")
    /\ aggCall.args[1].num = 77 /\ aggCall.args[2].num = 50
    /\ ~AnyMissing
    /\ 2 * aggOut.num = 127 * aggOut.den

\* C8: aggregate_subindex is the n-th root of the product of its n inputs when
\* all are present and positive, and missing as soon as one input is missing
\* or not positive
C8_SubindexIsGeometricMean ==
    Done("aggregate_subindex") =>
        /\ AllPositive => IsRootOfProduct(aggOut)
        /\ ~AllPositive => IsMissing(aggOut)

C8_Witness ==
    /\ Done("aggregate_subindex")
    /\ AllPositive /\ ~AllEqual
    /\ IsRootOfProduct(aggOut)
    /\ aggOut.num > 1

\* the inputs of the call in the order p
Permuted(p) == [i \in DOMAIN aggCall.args |-> aggCall.args[p[i]]]
InputOrders ==
    {p \in [DOMAIN aggCall.args -> DOMAIN aggCall.args] :
        \A i, j \in DOMAIN aggCall.args : p[i] = p[j] => i = j}
SameVal(a, b) ==
    IF IsMissing(a) \/ IsMissing(b) THEN IsMissing(a) /\ IsMissing(b)
    ELSE EqVal(a, b)

\* C9: aggregate_index is the cube root of the product of the 3 Sub-index
\* scores, missing as soon as one is missing or not positive, and every
\* permutation of the inputs gives the same result
C9_IndexIsSymmetricGeometricMean ==
    Done("aggregate_index") =>
        /\ AllPositive => IsRootOfProduct(aggOut)
        /\ ~AllPositive => IsMissing(aggOut)
        /\ \A p \in InputOrders : SameVal(aggregate_index(Permuted(p)), aggOut)

C9_Witness ==
    /\ Done("aggregate_index")
    /\ AllPositive
    /\ aggCall.args[1].num < aggCall.args[2].num
    /\ aggCall.args[2].num < aggCall.args[3].num
    /\ ~IsMissing(aggOut)

\* C10: for positive inputs the geometric-mean aggregate is at most the
\* arithmetic mean of the same inputs, with equality exactly when all the
\* inputs are equal
C10_GeometricAtMostArithmetic ==
    ((Done("aggregate_subindex") \/ Done("aggregate_index")) /\ AllPositive) =>
        LET am == [num |-> SumUpTo(NArgs), den |-> NArgs, root |-> 1]
        IN  /\ ~IsMissing(aggOut)
            /\ LeqVal(aggOut, am)
            /\ EqVal(aggOut, am) <=> AllEqual

\* one low input among high ones: the aggregate is strictly below the mean
C10_Witness ==
    /\ Done("aggregate_subindex")
    /\ AllPositive
    /\ aggCall.args[1].num = 1
    /\ \A i \in 2..NArgs : aggCall.args[i].num = MaxAggScore
    /\ ~EqVal(aggOut, [num |-> SumUpTo(NArgs), den |-> NArgs, root |-> 1])


(***************************************************************************)
(* C11: the loaded tables are never mutated in place.  No step of any      *)
(* callback changes the observation table: after any sequence of           *)
(* callbacks the table has the rows, columns and values it had after       *)
(* loading.  The tier and rank that update_scorecard_summary sets go to    *)
(* the row it copied out, which the response carries.                      *)
(***************************************************************************)
C11_TablesNeverMutated == [][data' = data]_vars

\* a summary that has set a tier and a rank on its row, the table unchanged
C11_Witness ==
    /\ IsSummary /\ Returned
    /\ response.summary.tier # NaText
    /\ ~IsNaN(response.summary.rank)
    /\ data \in Tables
    /\ \A i \in DOMAIN data : DOMAIN data[i] = DOMAIN Row(World, NaText, NaText, ScorecardYear, 0, 0)

(***************************************************************************)
(* C12: expected data absence never raises.  For a territory that has a    *)
(* row in the observation table, whatever values are missing in its rows,  *)
(* the map, summary, progress, radar and table callbacks return their      *)
(* output.                                                                 *)
(***************************************************************************)
IsMap == response.callback = "update_scorecard_map"
IsEvolution == response.callback = "display_evolution"
IsRadar == response.callback = "display_radar"
HasRow(t) == Locate(data, t) # {}

C12_AbsenceNeverRaises ==
    (IsMap \/ IsSummary \/ IsEvolution \/ IsRadar \/ IsTable)
        /\ HasRow(response.territory)
    => Returned

(***************************************************************************)
(* C13: an unknown territory key is a hard failure.  Every callback that   *)
(* receives a territory without a row in the observation table raises; it  *)
(* returns no placeholder, no empty view and no echo of the input.         *)
(***************************************************************************)
Called == response.callback # "none"

C13_UnknownKeyIsHardFailure ==
    Called /\ ~HasRow(response.territory) => ~Returned


(***************************************************************************)
(* C14: every value of the scorecard summary passes through the formatting *)
(* helper.  For a territory with a 2023 row update_scorecard_summary       *)
(* returns six values (area, population, GDP per capita, Index score,      *)
(* rank, tier); a value is the missing label "N/A" exactly when the cell,  *)
(* the rank or the tier it shows is missing, and the formatted cell        *)
(* otherwise.                                                              *)
(***************************************************************************)
Shown(row, summary) ==
    << row.area = NaText, IsNaN(row.population), IsNaN(row.gdp),
       IsNaN(row.scores[IndexColumn]), IsNaN(summary.rank),
       summary.tier = NaText >>

RECURSIVE LeqPow(_, _, _, _)
LeqPow(num, den, base, k) ==
    IF k = 0 THEN num <= den
    ELSE LeqPow((num + base - 1) \div base, den, base, k - 1)

\* ScoreMin <= v <= ScoreMax
WithinScale(v) ==
    /\ LeqVal(Score(ScoreMin), v)
    /\ LeqPow(v.num, v.den, ScoreMax, v.root)

Max(S) == CHOOSE x \in S : \A y \in S : y <= x
Present == {aggCall.args[i].num : i \in {j \in 1..NArgs : ~IsMissing(aggCall.args[j])}}

C15_ScoresStayInScale ==
    aggCall.done /\ (\A i \in 1..NArgs : IsMissing(aggCall.args[i]) \/ WithinScale(aggCall.args[i]))
    => \/ IsMissing(aggOut)
       \/ /\ WithinScale(aggOut)
          /\ LeqVal(Score(Min(Present)), aggOut)
          /\ LeqVal(aggOut, Score(Max(Present)))

\* a Sub-index strictly between its smallest and its largest input
C15_Witness ==
    /\ Done("aggregate_subindex")
    /\ ~IsMissing(aggOut)
    /\ WithinScale(aggOut)
    /\ ~LeqVal(aggOut, Score(Min(Present)))
    /\ ~LeqVal(Score(Max(Present)), aggOut)

(***************************************************************************)
(* The difference and its rounding as pure functions: a call is drawn at   *)
(* the start and applied once.  Scores are whole numbers of a fixed        *)
(* decimal unit (thousandths for 77.346 and 75.1).                         *)
(***************************************************************************)
MaxRound == 120

\* the worked examples: 0.0034567 and 1234.5 as whole numbers of their last
\* decimal, 77.346 and 75.1 in thousandths
SigRoundExamples == {34567, 12345}
DeltaExamples == {<<77346, 75100>>}

DeltaCalls ==
    {[fn |-> "delta", args |-> <<score, reference>>, done |-> FALSE] :
        score \in {NaN} \cup (0..MaxRound), reference \in {NaN} \cup (0..MaxRound)}
    \cup
    {[fn |-> "delta", args |-> e, done |-> FALSE] : e \in DeltaExamples}
    \cup
    {[fn |-> "sig_round", args |-> <<x>>, done |-> FALSE] :
        x \in ((-MaxRound)..MaxRound) \cup SigRoundExamples}

InitDelta ==
    /\ data = <<>>
    /\ globals = Imported(data)
    /\ response = NoResponse
    /\ first = NoResponse
    /\ aggCall \in DeltaCalls
    /\ aggOut = NaN

Delta ==
    /\ aggCall.fn = "delta" /\ ~aggCall.done
    /\ aggOut' = ScoreChange(aggCall.args[1], aggCall.args[2])
    /\ aggCall' = [aggCall EXCEPT !.done = TRUE]
    /\ UNCHANGED <<data, globals, response, first>>

SigRoundCall ==
    /\ aggCall.fn = "sig_round" /\ ~aggCall.done
    /\ aggOut' = sig_round(aggCall.args[1])
    /\ aggCall' = [aggCall EXCEPT !.done = TRUE]
    /\ UNCHANGED <<data, globals, response, first>>

NextDelta == Delta \/ SigRoundCall

SpecDelta == InitDelta /\ [][NextDelta]_vars

(***************************************************************************)
(* C16: delta is the signed difference score - reference, positive exactly *)
(* when the score exceeds the reference and zero when they are equal,      *)
(* rounded to 2 significant figures: the result is a multiple of the unit  *)
(* of the second significant figure of the difference, at most half a unit *)
(* away from it.  0.0034567 rounds to 0.0035, 1234.5 to 1200, and          *)
(* delta(77.346, 75.1) is 2.2.                                             *)
(***************************************************************************)
\* the unit of the last of `precision` significant figures of x
SigUnit(x, precision) ==
    IF Digits(Abs(x)) <= precision THEN 1
    ELSE Pow(10, Digits(Abs(x)) - precision)

IsSigRounded(x, r, precision) ==
    LET unit == SigUnit(x, precision)
    IN  /\ Abs(r) % unit = 0
        /\ 2 * Abs(x - r) <= unit
        /\ Abs(r) \div unit <= Pow(10, precision)
        /\ (r < 0) = (x < 0)

C16_DeltaIsRoundedDifference ==
    /\ Done("delta") /\ ~IsNaN(aggCall.args[1]) /\ ~IsNaN(aggCall.args[2]) =>
        LET score == aggCall.args[1]
            reference == aggCall.args[2]
        IN  /\ aggOut > 0 <=> score > reference
            /\ aggOut = 0 <=> score = reference
            /\ IsSigRounded(score - reference, aggOut, SIG_PRECISION)
            /\ aggCall.args \in DeltaExamples => aggOut = 2200
    /\ Done("sig_round") =>
        /\ IsSigRounded(aggCall.args[1], aggOut, SIG_PRECISION)
        /\ aggCall.args[1] = 34567 => aggOut = 35000
        /\ aggCall.args[1] = 12345 => aggOut = 12000

\* delta(77.346, 75.1) has been computed
C16_Witness ==
    /\ Done("delta")
    /\ aggCall.args = <<77346, 75100>>
    /\ aggOut = 2200


(***************************************************************************)
(* A session: the browser keeps the first response it remembers, and the   *)
(* callbacks go on with any selections, in any order.                      *)
(***************************************************************************)
InitSession ==
    /\ data \in DeltaTables
    /\ globals = Imported(data)
    /\ response = NoResponse
    /\ first = NoResponse
    /\ aggCall = NoCall
    /\ aggOut = MISSING

Remember ==
    /\ first = NoResponse
    /\ response # NoResponse
    /\ first' = response
    /\ UNCHANGED <<data, globals, response, aggCall, aggOut>>

NextSession ==
    \/ UpdateScorecardTitle
    \/ UpdateScorecardMap
    \/ UpdateScorecardSummary
    \/ DisplayEvolution
    \/ DisplayRadar
    \/ DisplayTable
    \/ Deliver
    \/ Remember

SpecSession == InitSession /\ [][NextSession]_vars

Members(t) ==
    IF t = World THEN {data[i].code : i \in DOMAIN data}
    ELSE {data[i].code : i \in {j \in DOMAIN data : data[j].area = t}}

UnionCentroid(codes) ==
    Centroid(UNION {geodata[c] : c \in codes \cap DOMAIN geodata})

OwnCentroid(t) == Centroid(geodata[First(data, Locate(data, t)).code])

C18_MapCentredOnUnionCentroid ==
    IsMap /\ Returned =>
        IF response.territory \in DOMAIN areas(data)
        THEN SamePoint(response.figure.center, UnionCentroid(Members(response.territory)))
        ELSE SamePoint(response.figure.center, OwnCentroid(response.territory))

\* C18 as the code has it: World is centred on (0, 0); an Area on the
\* centroid of the union of the geometries of its members; any other
\* territory on its own centroid.
C18_MapCentreWorldAtOrigin ==
    IsMap /\ Returned =>
        IF response.territory = World
        THEN response.figure.center = [lat |-> 0, lon |-> 0, n |-> 1]
        ELSE IF IsArea(response.territory)
        THEN SamePoint(response.figure.center, UnionCentroid(Members(response.territory)))
        ELSE SamePoint(response.figure.center, OwnCentroid(response.territory))

\* the map of an Area of several members, centred on the centroid of their
\* union and on no member's own centroid
C18_Witness ==
    /\ IsMap /\ Returned
    /\ IsArea(response.territory)
    /\ Cardinality(Members(response.territory)) > 1
    /\ SamePoint(response.figure.center, UnionCentroid(Members(response.territory)))
    /\ \A c \in Members(response.territory) :
           ~SamePoint(response.figure.center, Centroid(geodata[c]))


(***************************************************************************)
(* C19: the comparison rows of display_table.  For World only the World    *)
(* row is selected; for a territory whose area is null, the territory and  *)
(* World; for any other territory, the territory, its area and World.      *)
(* The selected rows are the 2023 rows of these territories and no row of  *)
(* another year, and the Area difference of a territory is taken against   *)
(* the 2023 row whose name is the territory's own area value.              *)
(***************************************************************************)
OwnArea(t) == First(data, Locate(data, t)).area

ComparedWith(t) ==
    IF t = World THEN <<World>>
    ELSE IF OwnArea(t) = NaText THEN <<t, World>>
         ELSE <<t, OwnArea(t), World>>

Selected2023(names) ==
    LET at == {i \in DOMAIN data : /\ data[i].territory \in names
                                   /\ data[i].year = ScorecardYear}
        nth[k \in 0..Cardinality(at)] ==
            IF k = 0 THEN <<>>
            ELSE LET i == CHOOSE j \in at :
                            Cardinality({h \in at : h < j}) = k - 1
                 IN  Append(nth[k - 1],
                            [Territory |-> data[i].territory, year |-> data[i].year])
    IN  nth[Cardinality(at)]

C19_ComparisonRows ==
    IsTable /\ Returned =>
        LET t == response.territory
        IN  /\ response.figure.territory_list = ComparedWith(t)
            /\ response.figure.df = Selected2023(Range(ComparedWith(t)))
            /\ \A i \in DOMAIN response.figure.df :
                   response.figure.df[i].year = RowOf(t).year
            /\ (t # World /\ ~IsArea(t)) =>
                   response.rows[1].score_change_from_area
                       = Expected(t, OwnArea(t), IndexColumn)

\* the table of a country that also has a row of an earlier year, compared
\* with the 2023 rows of its area and of World
C19_Witness ==
    /\ IsTable /\ Returned
    /\ \E i \in DOMAIN data : /\ data[i].territory = response.territory
                              /\ data[i].year # ScorecardYear
    /\ Len(response.figure.territory_list) = 3
    /\ Len(response.figure.df) = 3
    /\ ~IsNaN(response.rows[1].score_change_from_area)


(***************************************************************************)
(* C20: display_table returns exactly one row per score column (the Index, *)
(* the 3 Sub-indexes, the 15 Dimensions and the 30 Indicators, 49 rows),   *)
(* in column order, whatever territory of the table is selected and        *)
(* whatever values are missing; an Indicator row is labelled with the name *)
(* of the metadata record of the indicator's number.                       *)
(***************************************************************************)
NScoreColumns == 1 + NSubindexes + NDimensions + NIndicators

Label(i) ==
    IF i <= NScoreColumns - NIndicators THEN features[i]
    ELSE features[i] \o ": " \o metadata[i - (NScoreColumns - NIndicators)]

C20_OneRowPerScoreColumn ==
    IsTable /\ HasRow(response.territory) =>
        /\ Returned
        /\ Len(response.rows) = NScoreColumns
        /\ \A i \in 1..NScoreColumns : response.rows[i].component = Label(i)

(***************************************************************************)
(* C21: the series of display_evolution and display_radar.  For a selected *)
(* territory other than World the figure holds exactly the points of the   *)
(* territory, of its parent Area (when it has one) and of World; for World *)
(* only those of World.  display_evolution has one point per row of these  *)
(* territories (year, Index score); display_radar one point per 2023 row   *)
(* of these territories and per Dimension column, 15 for each row.         *)
(***************************************************************************)
Plotted(t) ==
    IF t = World THEN {World}
    ELSE {t, World} \cup ({OwnArea(t)} \ {NaText})

EvolutionPoints(t) ==
    {[Territory |-> data[i].territory, x |-> data[i].year,
      y |-> data[i].scores[IndexColumn]] :
        i \in {j \in DOMAIN data : data[j].territory \in Plotted(t)}}

RadarRows(t) ==
    {i \in DOMAIN data : /\ data[i].territory \in Plotted(t)
                         /\ data[i].year = ScorecardYear}

RadarPoints(t) ==
    {[Territory |-> data[i].territory, x |-> DimensionColumns[n],
      y |-> data[i].scores[DimensionColumns[n]]] :
        i \in RadarRows(t), n \in 1..NDimensions}

C21_SeriesOfTerritoryAreaWorld ==
    /\ IsEvolution =>
        /\ Returned <=> HasRow(response.territory)
        /\ Returned =>
            /\ Range(response.figure.traces) = EvolutionPoints(response.territory)
            /\ Len(response.figure.traces)
                 = Cardinality({j \in DOMAIN data :
                                  data[j].territory \in Plotted(response.territory)})
    /\ IsRadar =>
        /\ Returned <=> HasRow(response.territory)
        /\ Returned =>
            /\ Range(response.figure.traces) = RadarPoints(response.territory)
            /\ Len(response.figure.traces)
                 = NDimensions * Cardinality(RadarRows(response.territory))
            /\ \A k \in DOMAIN response.figure.traces :
                   response.figure.traces[k].x \in Range(DimensionColumns)

\* the radar of a country that also has a row of an earlier year: the 2023
\* rows of the country, of its Area and of World, 15 points each
C21_Witness ==
    /\ IsRadar /\ Returned
    /\ \E i \in DOMAIN data : /\ data[i].territory = response.territory
                              /\ data[i].year # ScorecardYear
    /\ Plotted(response.territory) = {response.territory, "A1", World}
    /\ Len(response.figure.traces) = 3 * NDimensions
    /\ Cardinality({j \in DOMAIN data : data[j].territory \notin Plotted(response.territory)}) > 0


(***************************************************************************)
(* C22: the score, tier and rank of the summary come from 2023 alone.  The *)
(* summary of a territory is the one computed on the table reduced to the  *)
(* territory's own 2023 row and the 2023 rows with an area: rows of any    *)
(* other year, and the rows of World and of Areas, change nothing.  The    *)
(* rank is one more than the number of 2023 rows with an area and a higher *)
(* Index score; the score and the tier are those of the 2023 row.          *)
(***************************************************************************)
Reduced(t) ==
    SelectSeq(data, LAMBDA r : /\ r.year = ScorecardYear
                               /\ (r.area # NaText \/ r.territory = t))

C22_SummaryFrom2023Only ==
    IsSummary /\ Returned =>
        LET t == response.territory
        IN  /\ response.summary = update_scorecard_summary(Reduced(t), t).summary
            /\ response.summary.tier = Tier(RowOf(t).scores[IndexColumn])
            /\ response.summary.values[4]
                 = GetValue(RowOf(t).scores[IndexColumn], "{}/100", 1)
            /\ IF IsRanked(t)
               THEN response.summary.rank
                      = 1 + Cardinality({i \in Ranked :
                                data[i].scores[IndexColumn] > IndexOf(t)})
               ELSE IsNaN(response.summary.rank)

\* the first of the 2023 ranking, while a row of an earlier year, the Area
\* row and the World row all hold a higher Index score
C22_Witness ==
    /\ IsSummary /\ Returned
    /\ response.summary.rank = 1
    /\ \E i \in DOMAIN data :
          /\ data[i].year # ScorecardYear /\ data[i].area # NaText
          /\ data[i].scores[IndexColumn] > IndexOf(response.territory)
    /\ \E i \in DOMAIN data :
          /\ data[i].year = ScorecardYear /\ data[i].territory = World
          /\ data[i].scores[IndexColumn] > IndexOf(response.territory)
    /\ \E i \in DOMAIN data :
          /\ data[i].year # ScorecardYear
          /\ data[i].territory = response.territory
          /\ data[i].scores[IndexColumn] # IndexOf(response.territory)


(***************************************************************************)
(* C23: the tier is total and monotone on the scored range.  Every         *)
(* non-missing Index score in [0,100], the maximum 100 that equals the     *)
(* last breakpoint included, gets exactly one tier label, and a higher     *)
(* score never gets a lower tier than a lower score.                       *)
(***************************************************************************)
\* the position of a label in the order of the tiers, 0 for no tier
TierOrder(label) ==
    IF label \in Range(TIER_LABELS)
    THEN CHOOSE i \in DOMAIN TIER_LABELS : TIER_LABELS[i] = label
    ELSE 0

C23_TierTotalAndMonotone ==
    IsSummary /\ Returned /\ ~IsNaN(IndexOf(response.territory)) =>
        /\ response.summary.tier \in Range(TIER_LABELS)
        /\ response.summary.values[6] = response.summary.tier
        /\ \A lower \in ScoreMin..IndexOf(response.territory) :
               TierOrder(Tier(lower)) <= TierOrder(response.summary.tier)

====
